---- MODULE Spec2Model ----
(***************************************************************************)
(* Schedule interpretation engine, capture screen and voice help of the    *)
(* ATENEU patient kiosk.                                                   *)
(*                                                                         *)
(* Two revisions of the component are in the repository: src/src/App.tsx   *)
(* (the richer one, with the closest-within-120-minutes fallback) and      *)
(* src/unnamed/part_001 (the older one, whose scan breaks at the first     *)
(* future activity).  Both are modelled; the variable `revision` says      *)
(* which one is running.                                                   *)
(*                                                                         *)
(* A JavaScript string is a sequence of one-character strings, so that     *)
(* split, trim, join, toLowerCase, includes and the regular expression     *)
(* /^sala\b/i are computed character by character, as the code does.       *)
(***************************************************************************)
EXTENDS Integers, Sequences, FiniteSets, TLC

VARIABLES
  scheduleData,  \* the week record of the recognition result, or Null
  revision,      \* which revision of the component is running
  dayName,       \* the day name of the lookup
  nowMin,        \* the reference time of the lookup, as minute of the day
  parsed,        \* the last call of parseActivities by the view, with its result
  ctx,           \* the last result of inferContextFromSchedule
  activities,    \* the local array of that call, as the call left it
  engine,        \* the order the engine's Array.prototype.sort leaves the
                 \* day's array in when the comparator is not consistent
  stats,         \* the counts of the day context of the last lookup
  images,        \* the last call of resolveImages, with its result
  status,        \* captureState.status
  streamRef,     \* streamRef.current: the stream held, NoStream for null
  tracks,        \* the streams whose tracks are running
  srcObject,     \* srcObject of the mounted <video>, NoStream when it has
                 \* none or no <video> is mounted
  cameraCalls,   \* the startCamera calls, each with the await it stands at
  captures,      \* the capturePhoto calls, each with the await it stands at
  passed,        \* the statuses passed since the status was last idle
  isHelpActive,  \* the voice help switch
  timer,         \* the pending 500 ms timer of the help effect: the status
                 \* whose help text it will speak, or NoTimer
  speaking       \* the utterance being spoken: the status it is the help
                 \* text of, or Silent

\* the state of the schedule functions
schedule ==
  <<scheduleData, revision, dayName, nowMin, parsed, ctx, activities,
    engine, stats, images>>

\* the state of the capture screen and of the voice help
kiosk ==
  <<status, streamRef, tracks, srcObject, cameraCalls, captures, passed,
    isHelpActive, timer, speaking>>

vars ==
  <<scheduleData, revision, dayName, nowMin, parsed, ctx, activities,
    engine, stats, images,
    status, streamRef, tracks, srcObject, cameraCalls, captures, passed,
    isHelpActive, timer, speaking>>

(***************************************************************************)
(* Bounds of the model.                                                    *)
(***************************************************************************)
\* largest number of comma-separated entries in a day string
MaxEntries == 2

\* largest number of startCamera calls in a run
MaxStartCalls == 2

\* largest number of capturePhoto calls in a run
MaxCaptures == 2

(***************************************************************************)
(* JavaScript values.                                                      *)
(***************************************************************************)
\* `undefined` (a missing property, an absent room); never a character string
Undefined == <<"undefined">>

\* `null` as returned for currentActivity / nextActivity
Null == [isNull |-> TRUE]

\* the state of a result variable before the first call
NotCalled == [notCalled |-> TRUE]

\* Number("bad"), Number(undefined): not-a-number, outside every minute count
NaN == -999999

IsNaN(x) == x = NaN

\* streamRef.current = null, srcObject = null
NoStream == 0

\* no timer of the help effect is pending
NoTimer == "no-timer"

\* window.speechSynthesis is not speaking
Silent == "silent"

\* the component as useState and useRef create it: idle, no stream, no call
\* made, help off
InitKiosk ==
  /\ status = "idle"
  /\ streamRef = NoStream
  /\ tracks = {}
  /\ srcObject = NoStream
  /\ cameraCalls = <<>>
  /\ captures = <<>>
  /\ passed = {}
  /\ isHelpActive = FALSE
  /\ timer = NoTimer
  /\ speaking = Silent

(***************************************************************************)
(* String primitives.                                                      *)
(***************************************************************************)
UpperLetters ==
  <<"A","B","C","D","E","F","G","H","I","J","K","L","M",
    "N","O","P","Q","R","S","T","U","V","W","X","Y","Z">>

LowerLetters ==
  <<"a","b","c","d","e","f","g","h","i","j","k","l","m",
    "n","o","p","q","r","s","t","u","v","w","x","y","z">>

DigitChars == <<"0","1","2","3","4","5","6","7","8","9">>

IsUpper(c) == \E i \in 1..26 : UpperLetters[i] = c

IsLower(c) == \E i \in 1..26 : LowerLetters[i] = c

IsDigit(c) == \E i \in 1..10 : DigitChars[i] = c

DigitValue(c) == (CHOOSE i \in 1..10 : DigitChars[i] = c) - 1

\* String.prototype.toLowerCase on one character
\* (the letters of the schedule alphabet: A-Z, and O with acute accent,
\* U+00D3, whose lower case is U+00F3)
LowerChar(c) ==
  IF IsUpper(c) THEN LowerLetters[CHOOSE i \in 1..26 : UpperLetters[i] = c]
  ELSE IF c = "U+00D3" THEN "U+00F3"
  ELSE c

\* String.prototype.toLowerCase
ToLowerCase(s) == [i \in 1..Len(s) |-> LowerChar(s[i])]

\* white space removed by String.prototype.trim
IsSpace(c) == c = " "

\* \w of a regular expression without the u flag
IsWordChar(c) == IsUpper(c) \/ IsLower(c) \/ IsDigit(c) \/ c = "_"

RECURSIVE TrimStart(_)
TrimStart(s) ==
  IF s = <<>> THEN <<>>
  ELSE IF IsSpace(Head(s)) THEN TrimStart(Tail(s)) ELSE s

RECURSIVE TrimEnd(_)
TrimEnd(s) ==
  IF s = <<>> THEN <<>>
  ELSE IF IsSpace(s[Len(s)]) THEN TrimEnd(SubSeq(s, 1, Len(s) - 1)) ELSE s

\* String.prototype.trim
Trim(s) == TrimEnd(TrimStart(s))

RECURSIVE SplitFrom(_, _, _, _, _)
SplitFrom(s, sep, i, cur, acc) ==
  IF i > Len(s) THEN Append(acc, cur)
  ELSE IF s[i] = sep THEN SplitFrom(s, sep, i + 1, <<>>, Append(acc, cur))
  ELSE SplitFrom(s, sep, i + 1, Append(cur, s[i]), acc)

\* String.prototype.split on a one-character separator: never empty,
\* ''.split(',') is ['']
Split(s, sep) == SplitFrom(s, sep, 1, <<>>, <<>>)

RECURSIVE Join(_, _)
\* Array.prototype.join
Join(parts, sep) ==
  IF parts = <<>> THEN <<>>
  ELSE IF Len(parts) = 1 THEN parts[1]
  ELSE parts[1] \o sep \o Join(Tail(parts), sep)

\* String.prototype.includes
Includes(s, sub) ==
  \E i \in 1..(Len(s) - Len(sub) + 1) : SubSeq(s, i, i + Len(sub) - 1) = sub

\* a string is truthy when it is not empty; undefined is falsy
Truthy(s) == s # Undefined /\ s # <<>>

Descanso == <<"d","e","s","c","a","n","s","o">>

Sala == <<"s","a","l","a">>

\* the test without its i flag: /^sala\b/
TestSalaCaseSensitive(s) ==
  /\ Len(s) >= 4
  /\ SubSeq(s, 1, 4) = Sala
  /\ (Len(s) = 4 \/ ~IsWordChar(s[5]))

\* /^sala\b/i.test(s)
TestSala(s) ==
  /\ Len(s) >= 4
  /\ ToLowerCase(SubSeq(s, 1, 4)) = Sala
  /\ (Len(s) = 4 \/ ~IsWordChar(s[5]))

RECURSIVE DecimalValue(_)
DecimalValue(s) ==
  IF s = <<>> THEN 0
  ELSE 10 * DecimalValue(SubSeq(s, 1, Len(s) - 1)) + DigitValue(s[Len(s)])

\* Number(s) of the strings the schedule alphabet can build: white space is
\* trimmed, the empty string is 0, a run of digits is its decimal value and
\* anything else is NaN
Number(s) ==
  LET t == Trim(s)
  IN  IF t = <<>> THEN 0
      ELSE IF \A i \in 1..Len(t) : IsDigit(t[i]) THEN DecimalValue(t)
      ELSE NaN

\* const [h, m] = time.split(':').map(Number); h * 60 + m
\* (a missing m is undefined, and h * 60 + undefined is NaN)
TimeToMinutes(time) ==
  LET hm == Split(time, ":")
      h  == Number(hm[1])
      m  == IF Len(hm) >= 2 THEN Number(hm[2]) ELSE NaN
  IN  IF IsNaN(h) \/ IsNaN(m) THEN NaN ELSE h * 60 + m

(***************************************************************************)
(* parseActivities.                                                        *)
(***************************************************************************)
\* the separator of the fullDescription template: space, the bullet
\* character U+2022 (one character, written by its code point), space
Bullet == <<" ", "U+2022", " ">>

\* parts.slice(0, -1)
SliceButLast(parts) == SubSeq(parts, 1, Len(parts) - 1)

\* parts.slice(0, -1).join(' ').trim()  (App.tsx)
JoinName(parts) == Trim(Join(SliceButLast(parts), <<" ">>))

\* parts.slice(0, -1).join(' - ')  (part_001)
JoinNameOld(parts) == Join(SliceButLast(parts), <<" ", "-", " ">>)

\* the room test without the count of the tokens: /^sala\b/i.test(last)
HasRoomAnyLength(parts) == TestSala(parts[Len(parts)])

\* parts.length > 1 && /^sala\b/i.test(last)
HasRoom(parts) == Len(parts) > 1 /\ TestSala(parts[Len(parts)])

\* the description if only the second hyphen token were taken:
\* const [timePart, desc] = entry.split('-')
DescriptionOfSecondToken(rest) == IF rest = <<>> THEN <<>> ELSE Trim(rest[1])

\* rest.join('-').trim(), rest being the hyphen tokens behind the first
DescriptionOf(rest) == Trim(Join(rest, <<"-">>))

\* the template with the separator of the entries: `${activityName} - ${room}`
FullDescriptionHyphen(name, room) ==
  IF Truthy(room) THEN name \o <<" ", "-", " ">> \o room ELSE name

\* room ? `${activityName} <bullet> ${room}` : activityName
FullDescription(name, room) ==
  IF Truthy(room) THEN name \o Bullet \o room ELSE name

\* the .map((entry) => ...) callback; rev selects the join of the name parts
ParseEntry(entry, rev) ==
  LET tokens == Split(entry, "-")
      time   == Trim(tokens[1])
      desc   == DescriptionOf(Tail(tokens))
      split2 == Split(desc, "-")
      parts  == [i \in 1..Len(split2) |-> Trim(split2[i])]
      room   == IF HasRoom(parts) THEN parts[Len(parts)] ELSE Undefined
      name   == IF HasRoom(parts)
                THEN (IF rev = "App" THEN JoinName(parts) ELSE JoinNameOld(parts))
                ELSE desc
      full   == FullDescription(name, room)
  IN  [time |-> time, description |-> desc, activityName |-> name,
       room |-> room, fullDescription |-> full]

\* the filter without its second operand: .filter((a) => a.time)
KeepActivityTimeOnly(a) == Truthy(a.time)

\* .filter((a) => a.time && a.activityName)
KeepActivity(a) == Truthy(a.time) /\ Truthy(a.activityName)

RECURSIVE FilterKept(_)
FilterKept(as) ==
  IF as = <<>> THEN <<>>
  ELSE IF KeepActivity(Head(as)) THEN <<Head(as)>> \o FilterKept(Tail(as))
  ELSE FilterKept(Tail(as))

\* the guard without its first operand:
\* activitiesString.toLowerCase().includes('descanso')
IsRestDayUnguarded(activitiesString) ==
  Includes(ToLowerCase(activitiesString), Descanso)

\* the guard without toLowerCase: activitiesString.includes('descanso')
IsRestDayCaseSensitive(activitiesString) ==
  \/ ~Truthy(activitiesString)
  \/ Includes(activitiesString, Descanso)

\* !activitiesString || activitiesString.toLowerCase().includes('descanso')
IsRestDay(activitiesString) ==
  \/ ~Truthy(activitiesString)
  \/ Includes(ToLowerCase(activitiesString), Descanso)

\* the comma-separated entries, trimmed
Entries(activitiesString) ==
  LET raw == Split(activitiesString, ",")
  IN  [i \in 1..Len(raw) |-> Trim(raw[i])]

ParseActivitiesRev(activitiesString, rev) ==
  IF IsRestDay(activitiesString) THEN <<>>
  ELSE LET es == Entries(activitiesString)
       IN  FilterKept([i \in 1..Len(es) |-> ParseEntry(es[i], rev)])

\* parseActivities of src/src/App.tsx
parseActivities(activitiesString) == ParseActivitiesRev(activitiesString, "App")

\* parseActivities of src/unnamed/part_001
parseActivitiesOld(activitiesString) == ParseActivitiesRev(activitiesString, "part_001")

(***************************************************************************)
(* Inputs: the day strings the webhook can deliver.                        *)
(***************************************************************************)
\* "09:00-F-Sala A": a name and a room
EntryRoom == <<"0","9",":","0","0","-","F","-","S","a","l","a"," ","A">>

\* " 09:30-H-Salas": written after `, `; `Salas` is not the word `sala`
EntryNoRoom == <<" ","0","9",":","3","0","-","H","-","S","a","l","a","s">>

\* "14:00-T-O - SALA b": a name of two hyphen tokens and an upper-case room
EntryLongName == <<"1","4",":","0","0","-","T","-","O"," ","-"," ","S","A","L","A"," ","b">>

\* "10:00-Sala A": the whole description is a room token
EntryOnlyRoom == <<"1","0",":","0","0","-","S","a","l","a"," ","A">>

\* "bad-entry-": the first token is not a time
EntryBadTime == <<"b","a","d","-","e","n","t","r","y","-">>

\* "10:00": no hyphen: the description is empty
EntryNoHyphen == <<"1","0",":","0","0">>

\* "-H": nothing before the first hyphen
EntryNoTime == <<"-","H">>

\* "14:00-": nothing after the first hyphen
EntryNoDesc == <<"1","4",":","0","0","-">>

\* "09:30--sala": nothing left of the description once the room is removed
EntryNoName == <<"0","9",":","3","0","-","-","s","a","l","a">>

\* "14:00-DeSCANSO": the rest-day marker, in mixed case
EntryDescanso == <<"1","4",":","0","0","-","D","e","S","C","A","N","S","O">>

\* "": an empty entry, as between two commas
EntryEmpty == <<>>

\* "10:30 - H": white space on both sides of the first hyphen
EntrySpaced == <<"1","0",":","3","0"," ","-"," ","H">>

EntryPool ==
  {EntryRoom, EntryNoRoom, EntryLongName, EntryOnlyRoom,
   EntryBadTime, EntryNoHyphen, EntryNoTime, EntryNoDesc,
   EntryNoName, EntryDescanso, EntryEmpty, EntrySpaced}

\* the entries of the days a lookup is made on: four times whose windows
\* and halos meet, one entry whose time is not a time and one the parser drops
SchedulePool ==
  {EntryRoom, EntryNoRoom, EntryLongName, EntryOnlyRoom, EntryBadTime,
   EntryNoTime}

\* the strings of k entries of the pool or fewer, joined with commas
RECURSIVE DayStringsUpTo(_, _)
DayStringsUpTo(pool, k) ==
  IF k = 0 THEN {<<>>}
  ELSE LET shorter == DayStringsUpTo(pool, k - 1)
       IN  shorter \cup pool
                   \cup {s \o <<",">> \o e : s \in shorter \ {<<>>}, e \in pool}

\* the day strings handed to the parser
DayStrings == DayStringsUpTo(EntryPool, MaxEntries)

\* the day strings of the days a lookup is made on
ScheduleStrings == DayStringsUpTo(SchedulePool, MaxEntries)

\* the weekday the delivered record has a string for
ConfiguredDays == {"Lunes"}

\* the day names a lookup is made with: absent (''), configured, not configured
DayNames == {"", "Lunes", "Martes"}

\* reference times, as minute of the day: midnight, the last minute, and the
\* edges of the strict window (-15 / +30) and of the fallback halo (120) of
\* the times 09:00, 09:30, 10:00 and 14:00 the entries use
NowMins ==
  {0, 419, 420, 479, 480, 524, 525, 540, 555, 570, 571, 585, 590, 600,
   630, 631, 660, 661, 690, 719, 720, 721, 825, 840, 870, 871,
   960, 961, 1020, 1439}

(***************************************************************************)
(* inferContextFromSchedule.                                               *)
(***************************************************************************)
Abs(x) == IF x < 0 THEN -x ELSE x

\* Math.abs(nowMin - t) <= 30 && nowMin >= t - 15; any comparison with NaN
\* is false
IsCurrent(t, now) == ~IsNaN(t) /\ Abs(now - t) <= 30 /\ now >= t - 15

\* the next activity taken only from those not yet in their window:
\* t - 15 > nowMin
IsFutureBeyondWindow(t, now) == ~IsNaN(t) /\ t - 15 > now

\* t > nowMin
IsFuture(t, now) == ~IsNaN(t) /\ t > now

\* the for loop of App.tsx: no break, the first match of each kind is kept
RECURSIVE ScanApp(_, _, _, _, _)
ScanApp(acts, i, now, current, next) ==
  IF i > Len(acts) THEN [current |-> current, next |-> next]
  ELSE LET a == acts[i]
           t == TimeToMinutes(a.time)
       IN  IF ~Truthy(a.time) THEN ScanApp(acts, i + 1, now, current, next)
           ELSE ScanApp(acts, i + 1, now,
                        IF IsCurrent(t, now) /\ current = Null THEN a ELSE current,
                        IF IsFuture(t, now) /\ next = Null THEN a ELSE next)

\* the loop of part_001 without its break and without a test of next:
\* every later future activity replaces the one found
RECURSIVE ScanOldOverwritingFrom(_, _, _, _, _)
ScanOldOverwritingFrom(acts, i, now, current, next) ==
  IF i > Len(acts) THEN [current |-> current, next |-> next]
  ELSE LET a == acts[i]
           t == TimeToMinutes(a.time)
       IN  ScanOldOverwritingFrom(acts, i + 1, now,
             IF IsCurrent(t, now) /\ current = Null THEN a ELSE current,
             IF IsFuture(t, now) THEN a ELSE next)

ScanOldOverwriting(acts, i, now, current) ==
  ScanOldOverwritingFrom(acts, i, now, current, Null)

\* the for loop of part_001: it stops at the first future activity
RECURSIVE ScanOld(_, _, _, _)
ScanOld(acts, i, now, current) ==
  IF i > Len(acts) THEN [current |-> current, next |-> Null]
  ELSE LET a    == acts[i]
           t    == TimeToMinutes(a.time)
           cur2 == IF IsCurrent(t, now) /\ current = Null THEN a ELSE current
       IN  IF IsFuture(t, now) THEN [current |-> cur2, next |-> a]
           ELSE ScanOld(acts, i + 1, now, cur2)

\* Math.abs(nowMin - aMin) of the sort comparator
Distance(a, now) ==
  LET t == TimeToMinutes(a.time)
  IN  IF IsNaN(t) THEN NaN ELSE Abs(now - t)

\* the comparator of activities.sort; Array.prototype.sort reads a NaN
\* result as +0
Compare(a, b, now) ==
  LET da == Distance(a, now)
      db == Distance(b, now)
  IN  IF IsNaN(da) \/ IsNaN(db) THEN 0 ELSE da - db

\* a consistent comparison function for the elements of the array
\* (ECMAScript, Array.prototype.sort)
ConsistentComparator(acts, now) ==
  LET I == 1..Len(acts)
      c == [i \in I, j \in I |-> Compare(acts[i], acts[j], now)]
  IN  \A i, j, k \in I :
        /\ (c[i, j] = 0 /\ c[j, k] = 0) => c[i, k] = 0
        /\ (c[i, j] < 0 /\ c[j, k] < 0) => c[i, k] < 0
        /\ (c[i, j] > 0 /\ c[j, k] > 0) => c[i, k] > 0

\* x placed behind every element that does not compare greater than it
RECURSIVE InsertSorted(_, _, _)
InsertSorted(sorted, x, now) ==
  IF sorted = <<>> THEN <<x>>
  ELSE IF Compare(sorted[Len(sorted)], x, now) > 0
       THEN Append(InsertSorted(SubSeq(sorted, 1, Len(sorted) - 1), x, now),
                   sorted[Len(sorted)])
       ELSE Append(sorted, x)

\* the stable sort by distance to nowMin
RECURSIVE StableSort(_, _)
StableSort(acts, now) ==
  IF acts = <<>> THEN <<>>
  ELSE InsertSorted(StableSort(SubSeq(acts, 1, Len(acts) - 1), now),
                    acts[Len(acts)], now)

\* the orders an engine can leave the day's array in when the comparator is
\* not consistent: the order is implementation-defined, every engine has one
EngineOrders(acts, now) ==
  IF ConsistentComparator(acts, now) THEN {<<>>}
  ELSE Permutations(1..Len(acts))

\* what activities.sort(...) leaves in the array: the stable sort when the
\* comparator is consistent, the order of the engine otherwise
SortOutcomes(acts, now) ==
  IF ConsistentComparator(acts, now) THEN {StableSort(acts, now)}
  ELSE {[i \in 1..Len(acts) |-> acts[engine[i]]]}

\* the halo with a strict comparison: Math.abs(nowMin - t) < 120
WithinHaloStrict(a, now) ==
  LET d == Distance(a, now) IN ~IsNaN(d) /\ d < 120

\* the fallback without its 120-minute guard
WithinHaloUnbounded(a, now) == ~IsNaN(Distance(a, now))

\* the halo looking back only: 0 <= nowMin - t <= 120
WithinHaloPast(a, now) ==
  LET t == TimeToMinutes(a.time)
  IN  ~IsNaN(t) /\ now - t >= 0 /\ now - t <= 120

\* the halo of the fallback: Math.abs(nowMin - t) <= 120
WithinHalo(a, now) ==
  LET d == Distance(a, now) IN ~IsNaN(d) /\ d <= 120

\* the default taken from the first configured day:
\* scheduleData[dayName] || scheduleData.Lunes || ''
RawOfFirstDay(sd, day) ==
  IF day \in DOMAIN sd /\ Truthy(sd[day]) THEN sd[day]
  ELSE IF "Lunes" \in DOMAIN sd /\ Truthy(sd["Lunes"]) THEN sd["Lunes"]
  ELSE <<>>

\* scheduleData[dayName] || ''
RawOf(sd, day) ==
  IF day \in DOMAIN sd /\ Truthy(sd[day]) THEN sd[day] ELSE <<>>

\* inferContextFromSchedule of App.tsx from the array of the day on: the
\* results it can return, each with the final content of the array
InferAppOn(acts, now) ==
  LET scan == ScanApp(acts, 1, now, Null, Null)
  IN  IF Len(acts) = 0
      THEN {[currentActivity |-> Null, nextActivity |-> Null, activities |-> acts]}
      ELSE IF scan.current # Null
      THEN {[currentActivity |-> scan.current, nextActivity |-> scan.next,
             activities |-> acts]}
      ELSE {[currentActivity |-> IF WithinHalo(sorted[1], now)
                                 THEN sorted[1] ELSE Null,
             nextActivity |-> scan.next,
             activities |-> sorted] : sorted \in SortOutcomes(acts, now)}

\* inferContextFromSchedule of App.tsx: the results it can return, each with
\* the final content of its local array
InferApp(sd, day, now) ==
  IF sd = Null \/ day = ""
  THEN {[currentActivity |-> Null, nextActivity |-> Null, activities |-> NotCalled]}
  ELSE InferAppOn(parseActivities(RawOf(sd, day)), now)

\* inferContextFromSchedule of part_001
InferOld(sd, day, now) ==
  IF sd = Null \/ day = ""
  THEN {[currentActivity |-> Null, nextActivity |-> Null, activities |-> NotCalled]}
  ELSE LET acts == parseActivitiesOld(RawOf(sd, day))
           scan == ScanOld(acts, 1, now, Null)
           last == acts[Len(acts)]
           t    == TimeToMinutes(last.time)
       IN  IF Len(acts) = 0
           THEN {[currentActivity |-> Null, nextActivity |-> Null, activities |-> acts]}
           ELSE IF scan.current = Null /\ scan.next = Null
           THEN {[currentActivity |-> IF ~IsNaN(t) /\ t <= now THEN last ELSE Null,
                  nextActivity |-> Null, activities |-> acts]}
           ELSE {[currentActivity |-> scan.current, nextActivity |-> scan.next,
                  activities |-> acts]}

(***************************************************************************)
(* The state machine: a recognition result holds the schedule record, and  *)
(* the component calls its pure functions on it.                           *)
(***************************************************************************)
Revisions == {"App", "part_001"}

\* the lookups: every reference time on the configured day; one reference
\* time for an absent or unconfigured day name, where the function returns
\* before it reads the time
Lookups ==
  ({"Lunes"} \X NowMins) \cup ((DayNames \ {"Lunes"}) \X {0})

\* the orders the engine can have for the array of the day looked up
EngineOrdersOf(sd, rev, day, now) ==
  IF rev = "App" /\ sd # Null /\ day # ""
  THEN EngineOrders(parseActivities(RawOf(sd, day)), now)
  ELSE {<<>>}

Init ==
  /\ scheduleData \in {Null} \cup [ConfiguredDays -> ScheduleStrings]
  /\ revision \in Revisions
  /\ \E l \in Lookups : dayName = l[1] /\ nowMin = l[2]
  /\ engine \in EngineOrdersOf(scheduleData, revision, dayName, nowMin)
  /\ parsed = NotCalled
  /\ ctx = NotCalled
  /\ activities = NotCalled
  /\ stats = NotCalled
  /\ images = NotCalled
  /\ InitKiosk

\* scheduleData?.[day]
PropertyOf(sd, day) ==
  IF sd # Null /\ day \in DOMAIN sd THEN sd[day] ELSE Undefined

\* activitiesString.toLowerCase() is evaluated on undefined: a TypeError.
\* The first operand of the guard, !activitiesString, keeps it from that.
ParseThrows(activitiesString) ==
  ~IsRestDay(activitiesString) /\ activitiesString = Undefined

\* the statements of inferContextFromSchedule that can throw: the call of
\* parseActivities; scheduleData[dayName] is behind the guard !scheduleData,
\* and a.time is a string in every activity the parser builds
InferThrows(sd, day) ==
  sd # Null /\ day # "" /\ ParseThrows(RawOf(sd, day))

\* parseActivities of App.tsx applied to the day's property of the record,
\* undefined when the record has none (the view hands over `|| ''`, which
\* parses to the same result)
ParseActivities ==
  /\ revision = "App"
  /\ parsed' = [activitiesString |-> PropertyOf(scheduleData, dayName),
                result |-> parseActivities(PropertyOf(scheduleData, dayName)),
                threw |-> ParseThrows(PropertyOf(scheduleData, dayName))]
  /\ UNCHANGED <<scheduleData, revision, dayName, nowMin, engine>>
  /\ UNCHANGED <<ctx, activities, stats, images>>
  /\ UNCHANGED kiosk

\* parseActivities of part_001 applied to the day's property of the record
ParseActivitiesOld ==
  /\ revision = "part_001"
  /\ parsed' = [activitiesString |-> PropertyOf(scheduleData, dayName),
                result |-> parseActivitiesOld(PropertyOf(scheduleData, dayName)),
                threw |-> ParseThrows(PropertyOf(scheduleData, dayName))]
  /\ UNCHANGED <<scheduleData, revision, dayName, nowMin, engine>>
  /\ UNCHANGED <<ctx, activities, stats, images>>
  /\ UNCHANGED kiosk

\* the lookup of App.tsx if parseActivities handed out one array per string:
\* the in-place sort would reorder the array the view holds
InferContextFromScheduleSharedArray ==
  /\ revision = "App"
  /\ \E r \in InferApp(scheduleData, dayName, nowMin) :
       /\ ctx' = [currentActivity |-> r.currentActivity,
                  nextActivity |-> r.nextActivity,
                  threw |-> InferThrows(scheduleData, dayName)]
       /\ activities' = r.activities
       /\ parsed' = IF parsed # NotCalled /\ scheduleData # Null /\ dayName # ""
                          /\ parsed.activitiesString = RawOf(scheduleData, dayName)
                    THEN [parsed EXCEPT !.result = r.activities]
                    ELSE parsed
  /\ UNCHANGED <<scheduleData, revision, dayName, nowMin, engine>>
  /\ UNCHANGED <<stats, images>>
  /\ UNCHANGED kiosk

\* the lookup of App.tsx if the array of the day were kept between calls:
\* the second call would scan the array the first call has sorted
InferContextFromScheduleReusingArray ==
  /\ revision = "App"
  /\ \E r \in (IF ctx # NotCalled /\ scheduleData # Null /\ dayName # ""
               THEN InferAppOn(activities, nowMin)
               ELSE InferApp(scheduleData, dayName, nowMin)) :
       /\ ctx' = [currentActivity |-> r.currentActivity,
                  nextActivity |-> r.nextActivity,
                  threw |-> InferThrows(scheduleData, dayName)]
       /\ activities' = r.activities
  /\ UNCHANGED <<scheduleData, revision, dayName, nowMin, engine>>
  /\ UNCHANGED <<parsed, stats, images>>
  /\ UNCHANGED kiosk

\* the lookup of App.tsx if it stored the default of a missing day in the
\* record: const raw = (scheduleData[dayName] ||= '')
InferContextFromScheduleDefaultingDay ==
  /\ revision = "App"
  /\ \E r \in InferApp(scheduleData, dayName, nowMin) :
       /\ ctx' = [currentActivity |-> r.currentActivity,
                  nextActivity |-> r.nextActivity,
                  threw |-> InferThrows(scheduleData, dayName)]
       /\ activities' = r.activities
  /\ scheduleData' =
       IF scheduleData # Null /\ dayName # ""
       THEN [d \in (DOMAIN scheduleData) \cup {dayName} |-> RawOf(scheduleData, d)]
       ELSE scheduleData
  /\ UNCHANGED <<revision, dayName, nowMin, engine>>
  /\ UNCHANGED <<parsed, stats, images>>
  /\ UNCHANGED kiosk

\* a call inferContextFromSchedule(scheduleData, dayName, now) of App.tsx
InferContextFromSchedule ==
  /\ revision = "App"
  /\ \E r \in InferApp(scheduleData, dayName, nowMin) :
       /\ ctx' = [currentActivity |-> r.currentActivity,
                  nextActivity |-> r.nextActivity,
                  threw |-> InferThrows(scheduleData, dayName)]
       /\ activities' = r.activities
  /\ UNCHANGED <<scheduleData, revision, dayName, nowMin, engine>>
  /\ UNCHANGED <<parsed, stats, images>>
  /\ UNCHANGED kiosk

\* a call inferContextFromSchedule(scheduleData, dayName, now) of part_001
InferContextFromScheduleOld ==
  /\ revision = "part_001"
  /\ \E r \in InferOld(scheduleData, dayName, nowMin) :
       /\ ctx' = [currentActivity |-> r.currentActivity,
                  nextActivity |-> r.nextActivity,
                  threw |-> InferThrows(scheduleData, dayName)]
       /\ activities' = r.activities
  /\ UNCHANGED <<scheduleData, revision, dayName, nowMin, engine>>
  /\ UNCHANGED <<parsed, stats, images>>
  /\ UNCHANGED kiosk

Next ==
  \/ ParseActivities
  \/ ParseActivitiesOld
  \/ InferContextFromSchedule
  \/ InferContextFromScheduleOld

Spec == Init /\ [][Next]_vars

(***************************************************************************)
(* The parser on its own: every day string of the full entry pool.         *)
(***************************************************************************)
InitParse ==
  /\ scheduleData \in [ConfiguredDays -> DayStrings]
  /\ revision \in Revisions
  /\ dayName \in DayNames
  /\ nowMin = 0
  /\ engine = <<>>
  /\ parsed = NotCalled
  /\ ctx = NotCalled
  /\ activities = NotCalled
  /\ stats = NotCalled
  /\ images = NotCalled
  /\ InitKiosk

NextParse ==
  \/ ParseActivities
  \/ ParseActivitiesOld

SpecParse == InitParse /\ [][NextParse]_vars

(***************************************************************************)
(* The parser and the lookup on garbled input: every day string of the     *)
(* full entry pool, at one reference time, and the days without a string.  *)
(***************************************************************************)
LenientLookups == {<<"Lunes", 540>>, <<"Martes", 0>>, <<"", 0>>}

InitLenient ==
  /\ scheduleData \in {Null} \cup [ConfiguredDays -> DayStrings]
  /\ revision \in Revisions
  /\ \E l \in LenientLookups : dayName = l[1] /\ nowMin = l[2]
  /\ engine \in EngineOrdersOf(scheduleData, revision, dayName, nowMin)
  /\ parsed = NotCalled
  /\ ctx = NotCalled
  /\ activities = NotCalled
  /\ stats = NotCalled
  /\ images = NotCalled
  /\ InitKiosk

SpecLenient == InitLenient /\ [][Next]_vars

(***************************************************************************)
(* The day context: the lookup and the counts of the day.  The counts      *)
(* (totalActivitiesToday, completedToday, upcomingToday) are fields of the *)
(* currentContext the view displays; the code that computes them is not in *)
(* the source files, and they are modelled from the specification.         *)
(***************************************************************************)
\* the counts of a day relative to the minute now: every activity, those
\* strictly before now, those strictly after now
DayCounts(sd, day, now, rev) ==
  LET acts == IF sd = Null \/ day = "" THEN <<>>
              ELSE ParseActivitiesRev(RawOf(sd, day), rev)
      ts   == [i \in 1..Len(acts) |-> TimeToMinutes(acts[i].time)]
  IN  [totalActivitiesToday |-> Len(acts),
       completedToday |->
         Cardinality({i \in 1..Len(acts) : ~IsNaN(ts[i]) /\ ts[i] < now}),
       upcomingToday |->
         Cardinality({i \in 1..Len(acts) : ~IsNaN(ts[i]) /\ ts[i] > now})]

\* the counts of the day context are computed for the lookup
DayContextCounts ==
  /\ stats' = DayCounts(scheduleData, dayName, nowMin, revision)
  /\ UNCHANGED <<scheduleData, revision, dayName, nowMin, engine>>
  /\ UNCHANGED <<parsed, ctx, activities, images>>
  /\ UNCHANGED kiosk

\* the entries of the days the counts are made on: three times, an entry
\* whose time is not a time, one the parser drops, and the rest-day marker
StatsPool ==
  {EntryRoom, EntryOnlyRoom, EntryLongName, EntryBadTime, EntryNoTime,
   EntryDescanso}

StatsStrings == DayStringsUpTo(StatsPool, MaxEntries)

InitStats ==
  /\ scheduleData \in {Null} \cup [ConfiguredDays -> StatsStrings]
  /\ revision \in Revisions
  /\ \E l \in Lookups : dayName = l[1] /\ nowMin = l[2]
  /\ engine \in EngineOrdersOf(scheduleData, revision, dayName, nowMin)
  /\ parsed = NotCalled
  /\ ctx = NotCalled
  /\ activities = NotCalled
  /\ stats = NotCalled
  /\ images = NotCalled
  /\ InitKiosk

NextStats ==
  \/ DayContextCounts
  \/ InferContextFromSchedule
  \/ InferContextFromScheduleOld

SpecStats == InitStats /\ [][NextStats]_vars

(***************************************************************************)
(* resolveImages.  An image is named by the photo of its URL; the keys of  *)
(* the two maps are written with U+00F3 for o with acute accent.           *)
(***************************************************************************)
\* 'fisioterapia'
KeyFisioterapia == <<"f","i","s","i","o","t","e","r","a","p","i","a">>

\* 'terapia ocupacional'
KeyTerapiaOcupacional ==
  <<"t","e","r","a","p","i","a"," ","o","c","u","p","a","c","i","o","n","a",
    "l">>

\* 'ejercicios'
KeyEjercicios == <<"e","j","e","r","c","i","c","i","o","s">>

\* 'rehabilitacion'
KeyRehabilitacion ==
  <<"r","e","h","a","b","i","l","i","t","a","c","i","U+00F3","n">>

\* 'hidroterapia'
KeyHidroterapia == <<"h","i","d","r","o","t","e","r","a","p","i","a">>

\* 'evaluacion'
KeyEvaluacion == <<"e","v","a","l","u","a","c","i","U+00F3","n">>

\* 'descanso'
KeyDescanso == <<"d","e","s","c","a","n","s","o">>

\* 'sala a'
KeySalaA == <<"s","a","l","a"," ","a">>

\* 'sala b'
KeySalaB == <<"s","a","l","a"," ","b">>

\* 'sala c'
KeySalaC == <<"s","a","l","a"," ","c">>

\* 'gimnasio'
KeyGimnasio == <<"g","i","m","n","a","s","i","o">>

\* 'piscina'
KeyPiscina == <<"p","i","s","c","i","n","a">>

\* activityImageMap: the pairs of a key and its image
activityImageMap ==
  {<<KeyFisioterapia, "photo-1559757148-5c350d0d3c56">>,
   <<KeyTerapiaOcupacional, "photo-1576091160399-112ba8d25d1f">>,
   <<KeyEjercicios, "photo-1571019613454-1cb2f99b2d8b">>,
   <<KeyRehabilitacion, "photo-1576091160550-2173dba999ef">>,
   <<KeyHidroterapia, "photo-1544551763-46a013bb70d5">>,
   <<KeyEvaluacion, "photo-1559757175-0eb30cd8c063">>,
   <<KeyDescanso, "photo-1540553016722-983e48a2cd10">>}

\* roomImageMap: the pairs of a key and its image
roomImageMap ==
  {<<KeySalaA, "photo-1571772996211-2f02c9727629">>,
   <<KeySalaB, "photo-1559757175-8a5a08d3b745">>,
   <<KeySalaC, "photo-1576091160399-112ba8d25d1f">>,
   <<KeyGimnasio, "photo-1571019613454-1cb2f99b2d8b">>,
   <<KeyPiscina, "photo-1544551763-46a013bb70d5">>}

\* 'constructor'
KeyConstructor == <<"c","o","n","s","t","r","u","c","t","o","r">>

\* '__proto__'
KeyProto == <<"_","_","p","r","o","t","o","_","_">>

\* the properties an object literal inherits from Object.prototype under a
\* name that toLowerCase can yield: the function Object and the prototype
\* object, neither of them a string
ObjectPrototype ==
  {<<KeyConstructor, "function Object">>, <<KeyProto, "Object.prototype">>}

\* map[key]: the own property, else the inherited one, else undefined
Get(map, key) ==
  IF \E p \in map : p[1] = key
  THEN (CHOOSE p \in map : p[1] = key)[2]
  ELSE IF \E p \in ObjectPrototype : p[1] = key
  THEN (CHOOSE p \in ObjectPrototype : p[1] = key)[2]
  ELSE "undefined"

\* the default of the activity image
DefaultActivityImage == "photo-1559757148-5c350d0d3c56"

\* the default of the room image
DefaultRoomImage == "photo-1571772996211-2f02c9727629"

\* the key without toLowerCase: actName.trim()
ActivityKeyCaseSensitive(actName) == Trim(actName)

\* actName.toLowerCase().trim()
ActivityKey(actName) == Trim(ToLowerCase(actName))

\* room?.toLowerCase()?.trim(), undefined for an absent room
RoomKey(room) == IF room = Undefined THEN Undefined ELSE Trim(ToLowerCase(room))

\* activity?.activityName || activity?.description || ''
ActName(activity) ==
  IF activity = Null THEN <<>>
  ELSE IF Truthy(activity.activityName) THEN activity.activityName
  ELSE IF Truthy(activity.description) THEN activity.description
  ELSE <<>>

resolveImages(activity, room) ==
  LET a == Get(activityImageMap, ActivityKey(ActName(activity)))
      r == Get(roomImageMap, RoomKey(room))
  IN  [activityImage |-> IF a # "undefined" THEN a ELSE DefaultActivityImage,
       roomImage |-> IF r # "undefined" THEN r ELSE DefaultRoomImage]

\* 'Hidroterapia'
NameHidroterapia == <<"H","i","d","r","o","t","e","r","a","p","i","a">>

\* 'REHABILITACION'
NameRehabilitacion ==
  <<"R","E","H","A","B","I","L","I","T","A","C","I","U+00D3","N">>

\* 'Desconocida'
NameDesconocida == <<"D","e","s","c","o","n","o","c","i","d","a">>

\* 'EJERCICIOS '
DescriptionEjercicios == <<"E","J","E","R","C","I","C","I","O","S"," ">>

\* 'Sala B'
RoomSalaB == <<"S","a","l","a"," ","B">>

\* ' SALA c'
RoomSalaC == <<" ","S","A","L","A"," ","c">>

\* 'Pista'
RoomPista == <<"P","i","s","t","a">>

\* the names of the activity handed to resolveImages: keys in another
\* letter case or with white space around, names no map has, absent names
ActivityNames ==
  {NameHidroterapia, NameRehabilitacion, NameDesconocida, KeyConstructor,
   Undefined}

Descriptions == {DescriptionEjercicios, Undefined}

\* the first argument: null, or an object with the two properties
ActivityArgs ==
  {Null} \cup [activityName : ActivityNames, description : Descriptions]

\* the second argument
RoomArgs == {RoomSalaB, RoomSalaC, RoomPista, KeyProto, <<>>, Undefined}

\* a call resolveImages(activity, room)
ResolveImages ==
  /\ \E activity \in ActivityArgs, room \in RoomArgs :
       images' = [activity |-> activity, room |-> room,
                  result |-> resolveImages(activity, room)]
  /\ UNCHANGED <<scheduleData, revision, dayName, nowMin, engine>>
  /\ UNCHANGED <<parsed, ctx, activities, stats>>
  /\ UNCHANGED kiosk

\* the days of the view that shows the images: two times and an entry
\* whose time is not a time
ImagePool == {EntryRoom, EntryOnlyRoom, EntryBadTime}

ImageStrings == DayStringsUpTo(ImagePool, MaxEntries)

\* the lookups of that view: at 07:00 on the configured day, and on a day
\* the record has no string for
ImageLookups == {<<"Lunes", 420>>, <<"Martes", 0>>}

InitImages ==
  /\ scheduleData \in {Null} \cup [ConfiguredDays -> ImageStrings]
  /\ revision \in Revisions
  /\ \E l \in ImageLookups : dayName = l[1] /\ nowMin = l[2]
  /\ engine \in EngineOrdersOf(scheduleData, revision, dayName, nowMin)
  /\ parsed = NotCalled
  /\ ctx = NotCalled
  /\ activities = NotCalled
  /\ stats = NotCalled
  /\ images = NotCalled
  /\ InitKiosk

NextImages ==
  \/ ResolveImages
  \/ ParseActivities
  \/ ParseActivitiesOld
  \/ InferContextFromSchedule
  \/ InferContextFromScheduleOld

SpecImages == InitImages /\ [][NextImages]_vars

(***************************************************************************)
(* Vocabulary of the properties.                                           *)
(***************************************************************************)
\* a lookup has been made on a record and a day name that are present
Looked == ctx # NotCalled /\ scheduleData # Null /\ dayName # ""

\* the activities of the day looked up, as the running revision parses them
TodayActivities ==
  IF revision = "App" THEN parseActivities(RawOf(scheduleData, dayName))
  ELSE parseActivitiesOld(RawOf(scheduleData, dayName))

\* the minute of the day of an activity, NaN when its time is not a time
MinuteOf(a) == TimeToMinutes(a.time)

HasMinute(a) == MinuteOf(a) # NaN

\* the minutes of the activities of a day, in schedule order
MinutesOf(acts) == [i \in 1..Len(acts) |-> MinuteOf(acts[i])]

\* the positions that have a minute of the day
Timed(ts) == {i \in 1..Len(ts) : ts[i] # NaN}

\* the positions in the strict window: from 15 minutes before the activity
\* to 30 minutes after
StrictMatches(ts) ==
  {i \in Timed(ts) : ts[i] - 15 <= nowMin /\ nowMin <= ts[i] + 30}

\* the positions later than the reference time
FutureMatches(ts) == {i \in Timed(ts) : ts[i] > nowMin}

SetMin(S) == CHOOSE x \in S : \A y \in S : x <= y

\* the position closest to the reference time, the earliest among the closest
Closest(ts) ==
  CHOOSE i \in Timed(ts) :
    \A j \in Timed(ts) :
      \/ Abs(nowMin - ts[i]) < Abs(nowMin - ts[j])
      \/ (Abs(nowMin - ts[i]) = Abs(nowMin - ts[j]) /\ i <= j)

(***************************************************************************)
(* C1.  When some activity of the day is in the strict window              *)
(* (t - 15 <= nowMin <= t + 30), the lookup returns as currentActivity the *)
(* first such activity in schedule order, whatever the order of the        *)
(* schedule.  The scan of part_001 stops at the first future activity and  *)
(* misses a match written behind it.                                       *)
(***************************************************************************)
C1_FirstMatchIsCurrent ==
  Looked =>
    LET acts == TodayActivities
        hits == StrictMatches(MinutesOf(acts))
    IN  hits # {} => ctx.currentActivity = acts[SetMin(hits)]

(***************************************************************************)
(* C2.  For a day with a single activity at minute t and a reference time  *)
(* before its window (nowMin < t - 15), the lookup returns                 *)
(* currentActivity = null and nextActivity = that activity.                *)
(***************************************************************************)
C2_BeforeWindowNoCurrent ==
  Looked =>
    LET acts == TodayActivities
        ts   == MinutesOf(acts)
    IN  (Len(acts) = 1 /\ Timed(ts) = {1} /\ nowMin < ts[1] - 15)
          => (ctx.currentActivity = Null /\ ctx.nextActivity = acts[1])

(***************************************************************************)
(* C2, amended.  For a day with a single activity at minute t and a        *)
(* reference time nowMin < t - 15, nextActivity is that activity;          *)
(* currentActivity is null when nowMin < t - 120, and in part_001 for      *)
(* every such nowMin, while App.tsx returns the activity itself as         *)
(* currentActivity when t - 120 <= nowMin (activity 10:00: null at 07:59,  *)
(* the activity at 08:00).                                                 *)
(***************************************************************************)
C2_BeforeWindowAmended ==
  Looked =>
    LET acts == TodayActivities
        ts   == MinutesOf(acts)
    IN  (Len(acts) = 1 /\ Timed(ts) = {1} /\ nowMin < ts[1] - 15)
          => /\ ctx.nextActivity = acts[1]
             /\ ctx.currentActivity =
                  (IF revision = "App" /\ ts[1] - 120 <= nowMin
                   THEN acts[1] ELSE Null)

\* App.tsx has looked up a day with a single activity more than 120 minutes
\* ahead: nothing is current, the activity is next
C2_Witness ==
  /\ Looked
  /\ revision = "App"
  /\ Len(TodayActivities) = 1
  /\ HasMinute(TodayActivities[1])
  /\ nowMin < MinuteOf(TodayActivities[1]) - 120
  /\ ctx.currentActivity = Null
  /\ ctx.nextActivity = TodayActivities[1]

(***************************************************************************)
(* C3.  The lookup never returns as currentActivity an activity that       *)
(* starts more than 30 minutes after the reference time.                   *)
(***************************************************************************)
C3_CurrentNotFarAhead ==
  (Looked /\ ctx.currentActivity # Null /\ HasMinute(ctx.currentActivity))
    => ~(MinuteOf(ctx.currentActivity) - nowMin > 30)

(***************************************************************************)
(* C3, amended.  The lookup never returns as currentActivity an activity   *)
(* that starts more than 120 minutes after the reference time; one that    *)
(* starts more than 15 minutes after it is returned only by the fallback   *)
(* of App.tsx, when no activity is in the strict window.                   *)
(***************************************************************************)
C3_CurrentNotFarAheadAmended ==
  (Looked /\ ctx.currentActivity # Null /\ HasMinute(ctx.currentActivity))
    => LET ahead == MinuteOf(ctx.currentActivity) - nowMin
       IN  /\ ahead <= 120
           /\ ahead > 15 =>
                /\ revision = "App"
                /\ StrictMatches(MinutesOf(TodayActivities)) = {}

\* the fallback of App.tsx has returned as current an activity that starts
\* between 31 and 120 minutes after the reference time
C3_Witness ==
  /\ Looked
  /\ revision = "App"
  /\ ctx.currentActivity # Null
  /\ HasMinute(ctx.currentActivity)
  /\ MinuteOf(ctx.currentActivity) - nowMin > 30
  /\ MinuteOf(ctx.currentActivity) - nowMin <= 120

(***************************************************************************)
(* C4.  Fallback rule of the richer revision (App.tsx): when the day has   *)
(* activities and none is in the strict window, currentActivity is the     *)
(* activity closest to the reference time (the earliest in schedule order  *)
(* among the closest) when that distance is at most 120 minutes, and null  *)
(* when it is more.  An entry whose time is not a time (see C6) stays at   *)
(* the head of the sorted array and hides the closest activity.            *)
(***************************************************************************)
C4_FallbackClosestWithin120 ==
  (Looked /\ revision = "App") =>
    LET acts == TodayActivities
        ts   == MinutesOf(acts)
    IN  (Len(acts) > 0 /\ StrictMatches(ts) = {})
          => ctx.currentActivity =
               (IF Timed(ts) # {} /\ Abs(nowMin - ts[Closest(ts)]) <= 120
                THEN acts[Closest(ts)] ELSE Null)

(***************************************************************************)
(* C5.  nextActivity is the first activity in schedule order whose minute  *)
(* is greater than the reference time, null when there is none; and        *)
(* whenever an activity is in the strict window, one such activity is      *)
(* returned as currentActivity wherever the next activity stands.  In      *)
(* part_001 the break at the next activity hides a match behind it (C1).   *)
(***************************************************************************)
C5_NextIsFirstFuture ==
  Looked =>
    LET acts   == TodayActivities
        future == FutureMatches(MinutesOf(acts))
    IN  ctx.nextActivity = (IF future = {} THEN Null ELSE acts[SetMin(future)])

C5_NextNeverHidesCurrent ==
  Looked =>
    LET acts == TodayActivities
        hits == StrictMatches(MinutesOf(acts))
    IN  hits # {} => \E i \in hits : ctx.currentActivity = acts[i]

C5_NextAndCurrent == C5_NextIsFirstFuture /\ C5_NextNeverHidesCurrent

(***************************************************************************)
(* Vocabulary of the properties of the parser.                             *)
(***************************************************************************)
\* the view has called parseActivities on a string
ParsedString == parsed # NotCalled /\ parsed.activitiesString # Undefined

\* the word occurs in s, in any letter case
ContainsIgnoringCase(s, word) ==
  \E i \in 1..(Len(s) - Len(word) + 1) :
    \A k \in 1..Len(word) : LowerChar(s[i + k - 1]) = word[k]

\* the position of the first hyphen of s, 0 when it has none
FirstHyphen(s) ==
  IF \E i \in 1..Len(s) : s[i] = "-"
  THEN SetMin({i \in 1..Len(s) : s[i] = "-"})
  ELSE 0

\* the text of an entry before its first hyphen
BeforeHyphen(e) == Trim(SubSeq(Trim(e), 1, FirstHyphen(Trim(e)) - 1))

\* the text of an entry after its first hyphen
AfterHyphen(e) == Trim(SubSeq(Trim(e), FirstHyphen(Trim(e)) + 1, Len(Trim(e))))

\* the entry has no hyphen, or nothing before or after its first hyphen
LacksPart(e) ==
  \/ FirstHyphen(Trim(e)) = 0
  \/ BeforeHyphen(e) = <<>>
  \/ AfterHyphen(e) = <<>>

\* HH:MM, with HH at most 23 and MM at most 59
WellFormedTime(time) ==
  /\ Len(time) = 5
  /\ time[3] = ":"
  /\ \A i \in {1, 2, 4, 5} : IsDigit(time[i])
  /\ 10 * DigitValue(time[1]) + DigitValue(time[2]) <= 23
  /\ 10 * DigitValue(time[4]) + DigitValue(time[5]) <= 59

\* s begins with the whole word `sala`, in any letter case
BeginsWithWordSala(s) ==
  /\ Len(s) >= 4
  /\ LowerChar(s[1]) = "s" /\ LowerChar(s[2]) = "a"
  /\ LowerChar(s[3]) = "l" /\ LowerChar(s[4]) = "a"
  /\ (Len(s) > 4 => ~IsWordChar(s[5]))

(***************************************************************************)
(* C6.  Every activity parseActivities returns has a time of the form      *)
(* HH:MM, within the day: an entry whose first hyphen token is not such a  *)
(* time is dropped.  The filter only asks for a time that is not empty,    *)
(* and `bad-entry-` is returned with the time `bad`.                       *)
(***************************************************************************)
C6_TimesAreWellFormed ==
  parsed # NotCalled =>
    \A i \in 1..Len(parsed.result) : WellFormedTime(parsed.result[i].time)

(***************************************************************************)
(* C7.  parseActivities returns the empty sequence whenever the day string *)
(* is absent, empty, or contains `descanso` in any letter case at any      *)
(* position, whatever valid entries it also contains.                      *)
(***************************************************************************)
C7_RestDayIsEmpty ==
  parsed # NotCalled =>
    LET s == parsed.activitiesString
    IN  (s = Undefined \/ s = <<>> \/ ContainsIgnoringCase(s, Descanso))
          => parsed.result = <<>>

\* a string whose first entry is a valid activity and whose second entry
\* holds the marker in mixed case has been parsed to nothing
C7_Witness ==
  /\ ParsedString
  /\ parsed.activitiesString = EntryRoom \o <<",">> \o EntryDescanso
  /\ ~Includes(parsed.activitiesString, Descanso)
  /\ parsed.result = <<>>

(***************************************************************************)
(* C8.  Every activity parseActivities returns has a non-empty time and a  *)
(* non-empty activityName; an entry that lacks either (no hyphen, nothing  *)
(* before or after its first hyphen) is dropped, and the other entries are *)
(* returned as if it had not been written: the result of a day string is   *)
(* the concatenation of the results of its entries.                        *)
(***************************************************************************)
RECURSIVE ResultsOfEntries(_, _)
ResultsOfEntries(es, rev) ==
  IF es = <<>> THEN <<>>
  ELSE ParseActivitiesRev(Head(es), rev) \o ResultsOfEntries(Tail(es), rev)

C8_KeptHaveTimeAndName ==
  parsed # NotCalled =>
    /\ \A i \in 1..Len(parsed.result) :
         /\ parsed.result[i].time # Undefined
         /\ parsed.result[i].time # <<>>
         /\ parsed.result[i].activityName # Undefined
         /\ parsed.result[i].activityName # <<>>
    /\ (ParsedString /\ ~ContainsIgnoringCase(parsed.activitiesString, Descanso))
         => LET es == Split(parsed.activitiesString, ",")
            IN  /\ parsed.result = ResultsOfEntries(es, revision)
                /\ \A i \in 1..Len(es) :
                     LacksPart(es[i]) => ParseActivitiesRev(es[i], revision) = <<>>

\* of two entries the first lacks a part and only the second is returned
C8_Witness ==
  /\ ParsedString
  /\ Len(Split(parsed.activitiesString, ",")) = 2
  /\ LacksPart(Split(parsed.activitiesString, ",")[1])
  /\ Split(parsed.activitiesString, ",")[1] # <<>>
  /\ Len(parsed.result) = 1
  /\ WellFormedTime(parsed.result[1].time)
  /\ parsed.result[1].time = BeforeHyphen(Split(parsed.activitiesString, ",")[2])

(***************************************************************************)
(* C9.  parseActivities returns the entries it keeps in the order they are *)
(* written in the day string, never sorted by time; the array the view     *)
(* holds is in that order also once inferContextFromSchedule has sorted    *)
(* its own array.                                                          *)
(***************************************************************************)
\* the activity a was made from the entry e
MadeFrom(a, e) ==
  /\ FirstHyphen(Trim(e)) > 0
  /\ a.time = BeforeHyphen(e)
  /\ a.description = AfterHyphen(e)

\* the k-th smallest element of a set of positions
RECURSIVE Nth(_, _)
Nth(S, k) == IF k = 1 THEN SetMin(S) ELSE Nth(S \ {SetMin(S)}, k - 1)

C9_OrderAsWritten ==
  ParsedString =>
    LET es  == Split(parsed.activitiesString, ",")
        res == parsed.result
    IN  \E S \in SUBSET (1..Len(es)) :
          /\ Cardinality(S) = Len(res)
          /\ \A k \in 1..Len(res) : MadeFrom(res[k], es[Nth(S, k)])

\* the view holds two activities written later-first, and the lookup has
\* left its own array in another order
C9_Witness ==
  /\ ParsedString
  /\ Looked
  /\ Len(parsed.result) = 2
  /\ HasMinute(parsed.result[1]) /\ HasMinute(parsed.result[2])
  /\ MinuteOf(parsed.result[1]) > MinuteOf(parsed.result[2])
  /\ activities # parsed.result

(***************************************************************************)
(* C10.  Room detection: for every returned activity, if the last hyphen   *)
(* token of the description (trimmed) begins with the whole word `sala`    *)
(* in any letter case, room is that token and activityName is the rest of  *)
(* the description; otherwise room is absent and activityName is the       *)
(* description.                                                            *)
(***************************************************************************)
\* the hyphen tokens of a description, trimmed
TokensOf(desc) ==
  LET raw == Split(desc, "-") IN [i \in 1..Len(raw) |-> Trim(raw[i])]

\* the tokens before the last, joined as the revision joins them
RestOfDescription(toks, rev) ==
  LET rest == SubSeq(toks, 1, Len(toks) - 1)
  IN  IF rev = "App" THEN Trim(Join(rest, <<" ">>))
      ELSE Join(rest, <<" ", "-", " ">>)

C10_RoomWheneverLastTokenIsSala ==
  parsed # NotCalled =>
    \A i \in 1..Len(parsed.result) :
      LET a    == parsed.result[i]
          toks == TokensOf(a.description)
          last == toks[Len(toks)]
      IN  IF BeginsWithWordSala(last)
          THEN a.room = last /\ a.activityName = RestOfDescription(toks, revision)
          ELSE a.room = Undefined /\ a.activityName = a.description

(***************************************************************************)
(* C10, amended.  For every returned activity, if the description has at   *)
(* least two hyphen tokens and the last one (trimmed) begins with the      *)
(* whole word `sala` in any letter case, room is that token and            *)
(* activityName is the other tokens, trimmed and joined (with a space in   *)
(* App.tsx, with ` - ` in part_001); otherwise, also when the whole        *)
(* description is a room token, room is absent and activityName is the     *)
(* description.                                                            *)
(***************************************************************************)
C10_RoomDetectionAmended ==
  parsed # NotCalled =>
    \A i \in 1..Len(parsed.result) :
      LET a    == parsed.result[i]
          toks == TokensOf(a.description)
          last == toks[Len(toks)]
      IN  IF Len(toks) > 1 /\ BeginsWithWordSala(last)
          THEN a.room = last /\ a.activityName = RestOfDescription(toks, revision)
          ELSE a.room = Undefined /\ a.activityName = a.description

\* one returned activity has a room, another is a lone room token kept as
\* the name
C10_Witness ==
  /\ parsed # NotCalled
  /\ \E i, j \in 1..Len(parsed.result) :
       /\ parsed.result[i].room # Undefined
       /\ parsed.result[i].activityName # parsed.result[i].description
       /\ parsed.result[j].room = Undefined
       /\ BeginsWithWordSala(parsed.result[j].description)

(***************************************************************************)
(* C11.  For every activity parseActivities returns, description is        *)
(* exactly the text of its entry behind the first hyphen, character for    *)
(* character: the other hyphens are kept and nothing is added or removed.  *)
(* The code trims that text: of `10:30 - H` it returns `H`, not ` H`.      *)
(***************************************************************************)
\* the text of an entry behind its first hyphen, character for character
TextAfterFirstHyphen(e) ==
  SubSeq(Trim(e), FirstHyphen(Trim(e)) + 1, Len(Trim(e)))

\* white space at neither end
IsTrimmed(s) == s = <<>> \/ (s[1] # " " /\ s[Len(s)] # " ")

C11_DescriptionUnmodified ==
  ParsedString =>
    LET es  == Split(parsed.activitiesString, ",")
        res == parsed.result
    IN  \E S \in SUBSET (1..Len(es)) :
          /\ Cardinality(S) = Len(res)
          /\ \A k \in 1..Len(res) :
               /\ FirstHyphen(Trim(es[Nth(S, k)])) > 0
               /\ res[k].time = BeforeHyphen(es[Nth(S, k)])
               /\ res[k].description = TextAfterFirstHyphen(es[Nth(S, k)])

(***************************************************************************)
(* C11, amended.  For every activity parseActivities returns, description  *)
(* is the text of its entry behind the first hyphen with the white space   *)
(* at its two ends removed and nothing else changed: the other hyphens and *)
(* the white space around them are kept.                                   *)
(***************************************************************************)
C11_DescriptionTrimmedOnly ==
  ParsedString =>
    LET es  == Split(parsed.activitiesString, ",")
        res == parsed.result
    IN  \E S \in SUBSET (1..Len(es)) :
          /\ Cardinality(S) = Len(res)
          /\ \A k \in 1..Len(res) :
               LET text == TextAfterFirstHyphen(es[Nth(S, k)])
                   d    == res[k].description
               IN  /\ FirstHyphen(Trim(es[Nth(S, k)])) > 0
                   /\ res[k].time = BeforeHyphen(es[Nth(S, k)])
                   /\ IsTrimmed(d)
                   /\ \E lead, trail \in 0..Len(text) :
                        /\ lead + Len(d) + trail = Len(text)
                        /\ SubSeq(text, lead + 1, lead + Len(d)) = d
                        /\ \A i \in 1..lead : text[i] = " "
                        /\ \A i \in (lead + Len(d) + 1)..Len(text) : text[i] = " "

\* a description that keeps its inner hyphens and spaces, and one that lost
\* the space behind the first hyphen of its entry
C11_Witness ==
  /\ ParsedString
  /\ parsed.activitiesString = EntryLongName \o <<",">> \o EntrySpaced
  /\ Len(parsed.result) = 2
  /\ parsed.result[1].description =
       <<"T","-","O"," ","-"," ","S","A","L","A"," ","b">>
  /\ parsed.result[2].description = <<"H">>

(***************************************************************************)
(* C12.  For every activity parseActivities returns, fullDescription is    *)
(* activityName, a space, the bullet U+2022, a space and room when room is *)
(* present, and activityName alone when room is absent.                    *)
(***************************************************************************)
C12_FullDescriptionTemplate ==
  parsed # NotCalled =>
    \A i \in 1..Len(parsed.result) :
      LET a == parsed.result[i]
      IN  IF a.room # Undefined
          THEN a.fullDescription =
                 a.activityName \o <<" ", "U+2022", " ">> \o a.room
          ELSE a.fullDescription = a.activityName

\* one returned activity has a room and the bullet in its full description,
\* another has neither
C12_Witness ==
  /\ parsed # NotCalled
  /\ \E i, j \in 1..Len(parsed.result) :
       /\ parsed.result[i].room # Undefined
       /\ Len(parsed.result[i].fullDescription) =
            Len(parsed.result[i].activityName) + 3 + Len(parsed.result[i].room)
       /\ parsed.result[i].fullDescription[Len(parsed.result[i].activityName) + 2]
            = "U+2022"
       /\ parsed.result[j].room = Undefined
       /\ parsed.result[j].fullDescription = parsed.result[j].activityName

(***************************************************************************)
(* C13.  The lookup returns currentActivity = null and nextActivity =      *)
(* null, and the counts of the day are zero, whenever the week record is   *)
(* absent, the day name is absent, the record has no string for the day,   *)
(* or the string of the day parses to no activity (rest day), at every     *)
(* reference time.                                                         *)
(***************************************************************************)
\* nothing is scheduled for the lookup
NothingToday ==
  \/ scheduleData = Null
  \/ dayName = ""
  \/ PropertyOf(scheduleData, dayName) = Undefined
  \/ ParseActivitiesRev(PropertyOf(scheduleData, dayName), revision) = <<>>

C13_NothingTodayIsNullAndZero ==
  NothingToday =>
    /\ ctx # NotCalled =>
         (ctx.currentActivity = Null /\ ctx.nextActivity = Null)
    /\ stats # NotCalled =>
         /\ stats.totalActivitiesToday = 0
         /\ stats.completedToday = 0
         /\ stats.upcomingToday = 0

\* a lookup in the middle of the day on a string that holds a valid entry
\* and the rest-day marker has returned null twice and counted nothing
C13_Witness ==
  /\ ctx # NotCalled
  /\ stats # NotCalled
  /\ scheduleData # Null
  /\ dayName = "Lunes"
  /\ nowMin = 540
  /\ scheduleData["Lunes"] = EntryRoom \o <<",">> \o EntryDescanso
  /\ ctx.currentActivity = Null
  /\ ctx.nextActivity = Null
  /\ stats.totalActivitiesToday = 0

(***************************************************************************)
(* C14.  The counts of a lookup are: totalActivitiesToday the number of    *)
(* parsed activities, completedToday the number with minute < nowMin,      *)
(* upcomingToday the number with minute > nowMin; so completedToday +      *)
(* upcomingToday <= totalActivitiesToday, and the two sides differ only    *)
(* when the minute of some activity equals nowMin.  An activity whose time *)
(* is not a time (see C6) is in the total and in neither of the two.       *)
(***************************************************************************)
C14_CountsPartitionTheDay ==
  (stats # NotCalled /\ scheduleData # Null /\ dayName # "") =>
    LET acts == TodayActivities
        ts   == MinutesOf(acts)
    IN  /\ stats.totalActivitiesToday = Len(acts)
        /\ stats.completedToday =
             Cardinality({i \in Timed(ts) : ts[i] < nowMin})
        /\ stats.upcomingToday =
             Cardinality({i \in Timed(ts) : ts[i] > nowMin})
        /\ stats.completedToday + stats.upcomingToday
             <= stats.totalActivitiesToday
        /\ (stats.completedToday + stats.upcomingToday
              < stats.totalActivitiesToday)
             => \E i \in 1..Len(acts) : ts[i] = nowMin

(***************************************************************************)
(* Vocabulary of the properties of resolveImages.                          *)
(***************************************************************************)
\* s differs from the key only by letter case and by white space around it
SameUpToCaseAndSpace(s, key) ==
  \E lead \in 0..Len(s) :
    /\ lead + Len(key) <= Len(s)
    /\ \A i \in 1..lead : s[i] = " "
    /\ \A i \in 1..Len(key) : LowerChar(s[lead + i]) = key[i]
    /\ \A i \in (lead + Len(key) + 1)..Len(s) : s[i] = " "

\* the name the activity is looked up by: activityName, or description when
\* the name is absent or empty; undefined when there is neither
GivenName(activity) ==
  IF activity = Null THEN Undefined
  ELSE IF activity.activityName # Undefined /\ activity.activityName # <<>>
  THEN activity.activityName
  ELSE activity.description

\* the string is a key of the map, up to letter case and white space around
IsKeyOf(s, map) == \E p \in map : SameUpToCaseAndSpace(s, p[1])

\* the image references of the two maps and the two defaults
ImageReferences ==
  {p[2] : p \in activityImageMap \cup roomImageMap}
    \cup {DefaultActivityImage, DefaultRoomImage}

(***************************************************************************)
(* C15.  resolveImages looks the activity up by its lower-cased, trimmed   *)
(* activityName (description when the name is absent) and the room by its  *)
(* lower-cased, trimmed string: an input that differs from a key of the    *)
(* map only by letter case or white space around it gets the image of that *)
(* key ('Hidroterapia' and 'Sala B': the images of 'hidroterapia' and      *)
(* 'sala b').                                                              *)
(***************************************************************************)
C15_LookupIgnoresCaseAndSpace ==
  images # NotCalled =>
    /\ \A p \in activityImageMap :
         SameUpToCaseAndSpace(GivenName(images.activity), p[1])
           => images.result.activityImage = p[2]
    /\ \A p \in roomImageMap :
         SameUpToCaseAndSpace(images.room, p[1])
           => images.result.roomImage = p[2]

\* resolveImages('Hidroterapia', 'Sala B') has returned the two mapped
\* images, neither of them a default
C15_Witness ==
  /\ images # NotCalled
  /\ images.activity # Null
  /\ images.activity.activityName = NameHidroterapia
  /\ images.room = RoomSalaB
  /\ images.result.activityImage = "photo-1544551763-46a013bb70d5"
  /\ images.result.roomImage = "photo-1559757175-8a5a08d3b745"
  /\ images.result.activityImage # DefaultActivityImage
  /\ images.result.roomImage # DefaultRoomImage

(***************************************************************************)
(* C16.  resolveImages is total: for every activity name and every room    *)
(* string, empty and absent ones included, that is not a key of its map,   *)
(* it returns the default activity image and the default room image, two   *)
(* different constants, and what it returns is always an image reference.  *)
(* The maps are object literals: for 'constructor' and '__proto__' the     *)
(* lookup finds a property of Object.prototype, which is returned.         *)
(***************************************************************************)
C16_DefaultsOnEveryMiss ==
  images # NotCalled =>
    /\ ~IsKeyOf(GivenName(images.activity), activityImageMap)
         => images.result.activityImage = DefaultActivityImage
    /\ ~IsKeyOf(images.room, roomImageMap)
         => images.result.roomImage = DefaultRoomImage
    /\ DefaultActivityImage # DefaultRoomImage
    /\ images.result.activityImage \in ImageReferences
    /\ images.result.roomImage \in ImageReferences

Mark(a) ==
  [f \in (DOMAIN a) \cup {"shown"} |-> IF f = "shown" THEN TRUE ELSE a[f]]

ReturnedFields == {"currentActivity", "nextActivity"}

\* the caller sets a property of a returned activity
WriteReturned ==
  /\ ctx # NotCalled
  /\ \E f \in ReturnedFields :
       /\ ctx[f] # Null
       /\ "shown" \notin DOMAIN ctx[f]
       /\ ctx' = [ctx EXCEPT ![f] = Mark(@)]
  /\ UNCHANGED <<scheduleData, revision, dayName, nowMin, engine>>
  /\ UNCHANGED <<parsed, activities, stats, images>>
  /\ UNCHANGED kiosk

NextOwner ==
  \/ WriteReturned
  \/ ParseActivities
  \/ ParseActivitiesOld
  \/ InferContextFromSchedule
  \/ InferContextFromScheduleOld

SpecOwner == Init /\ [][NextOwner]_vars

\* the caller has written to the returned object
Written(a) == a # Null /\ "shown" \in DOMAIN a

\* the returned object as the lookup built it
AsReturned(a) ==
  IF Written(a) THEN [f \in (DOMAIN a) \ {"shown"} |-> a[f]] ELSE a

TimeText(e) == Trim(Split(Trim(e), "-")[1])

HasValidTime(e) == WellFormedTime(TimeText(e))

\* the day string without its entries that have no valid time
WithoutMalformed(s) == Join(SelectSeq(Split(s, ","), HasValidTime), <<",">>)

C20_MalformedNeverSurfaced ==
  Looked =>
    LET clean   == [d \in DOMAIN scheduleData |->
                      WithoutMalformed(scheduleData[d])]
        results == IF revision = "App"
                   THEN InferApp(clean, dayName, nowMin)
                   ELSE InferOld(clean, dayName, nowMin)
    IN  /\ \E r \in results : /\ ctx.currentActivity = r.currentActivity
                              /\ ctx.nextActivity = r.nextActivity
        /\ \A f \in ReturnedFields :
             ctx[f] # Null => WellFormedTime(ctx[f].time)

(***************************************************************************)
(* C22.  In App.tsx, for a day whose activities all have a valid time, the *)
(* lookup returns a currentActivity if and only if some activity of the    *)
(* day is at most 120 minutes from the reference time, before or after it. *)
(***************************************************************************)
\* every activity of the day has a time HH:MM
AllTimesValid(acts) == \A i \in 1..Len(acts) : WellFormedTime(acts[i].time)

\* the positions at most 120 minutes from the reference time
HaloMatches(ts) == {i \in Timed(ts) : Abs(nowMin - ts[i]) <= 120}

C22_CurrentIffWithin120 ==
  (Looked /\ revision = "App" /\ AllTimesValid(TodayActivities)) =>
    (ctx.currentActivity # Null <=> HaloMatches(MinutesOf(TodayActivities)) # {})

\* App.tsx has looked up a day of two activities with valid times, none in
\* the strict window, and returned as current one that starts later than the
\* reference time
C22_Witness ==
  /\ Looked
  /\ revision = "App"
  /\ Len(TodayActivities) = 2
  /\ AllTimesValid(TodayActivities)
  /\ StrictMatches(MinutesOf(TodayActivities)) = {}
  /\ ctx.currentActivity # Null
  /\ MinuteOf(ctx.currentActivity) > nowMin

(***************************************************************************)
(* C23.  currentActivity and nextActivity can be the same entry: when the  *)
(* first activity in the strict window, in schedule order, has not started *)
(* yet (t - 15 <= nowMin < t) and no entry written before it is later than *)
(* the reference time, the lookup returns that entry as both.              *)
(***************************************************************************)
C23_CurrentIsAlsoNext ==
  Looked =>
    LET acts == TodayActivities
        ts   == MinutesOf(acts)
        hits == StrictMatches(ts)
    IN  (/\ hits # {}
         /\ ts[SetMin(hits)] > nowMin
         /\ \A j \in FutureMatches(ts) : j >= SetMin(hits))
          => /\ ctx.currentActivity = acts[SetMin(hits)]
             /\ ctx.nextActivity = acts[SetMin(hits)]

\* a lookup has returned as current and as next the second entry of the
\* day, which starts within 15 minutes
C23_Witness ==
  /\ Looked
  /\ Len(TodayActivities) = 2
  /\ ctx.currentActivity = TodayActivities[2]
  /\ ctx.nextActivity = TodayActivities[2]
  /\ TodayActivities[1] # TodayActivities[2]
  /\ HasMinute(TodayActivities[2])
  /\ MinuteOf(TodayActivities[2]) > nowMin
  /\ MinuteOf(TodayActivities[2]) - 15 <= nowMin

(***************************************************************************)
(* The two revisions of the lookup on the same day.                        *)
(***************************************************************************)
\* "09:30---sala": a room behind two empty name tokens; App.tsx joins them
\* to ' ', trims and drops the entry, part_001 joins them to ' - ' and keeps it
EntryDashes == <<"0","9",":","3","0","-","-","-","s","a","l","a">>

VariantPool ==
  {EntryRoom, EntryLongName, EntryOnlyRoom, EntryBadTime, EntryDashes}

VariantStrings == DayStringsUpTo(VariantPool, MaxEntries)

InitVariants ==
  /\ scheduleData \in {Null} \cup [ConfiguredDays -> VariantStrings]
  /\ revision \in Revisions
  /\ \E l \in Lookups : dayName = l[1] /\ nowMin = l[2]
  /\ engine \in EngineOrdersOf(scheduleData, revision, dayName, nowMin)
  /\ parsed = NotCalled
  /\ ctx = NotCalled
  /\ activities = NotCalled
  /\ stats = NotCalled
  /\ images = NotCalled
  /\ InitKiosk

NextVariants ==
  \/ InferContextFromScheduleOld
  \/ InferContextFromSchedule

SpecVariants == InitVariants /\ [][NextVariants]_vars

\* the day looked up as each revision parses it
ActivitiesApp == parseActivities(RawOf(scheduleData, dayName))

ActivitiesOld == parseActivitiesOld(RawOf(scheduleData, dayName))

\* the result of the loop of the revision that is not running
OtherScan ==
  IF revision = "App"
  THEN ScanOld(ActivitiesOld, 1, nowMin, Null)
  ELSE ScanApp(ActivitiesApp, 1, nowMin, Null, Null)

\* the minutes are written in ascending order
Ascending(ts) == \A i, j \in Timed(ts) : i < j => ts[i] <= ts[j]

\* the entry an activity was made from: what does not depend on the way a
\* revision writes the name
EntryOf(a) ==
  IF a = Null THEN Null
  ELSE [time |-> a.time, description |-> a.description, room |-> a.room]

\* both revisions keep the same entries of the day
SameEntriesKept ==
  /\ Len(ActivitiesApp) = Len(ActivitiesOld)
  /\ \A i \in 1..Len(ActivitiesApp) :
       EntryOf(ActivitiesApp[i]) = EntryOf(ActivitiesOld[i])

(***************************************************************************)
(* C24.  The loop of App.tsx (no break) and the loop of part_001 (break at *)
(* the first future activity) return the same nextActivity for every       *)
(* schedule and reference time, and the same strict-window currentActivity *)
(* when the activities of the day are written in ascending time order.     *)
(* The activities each revision scans come from its own parser:            *)
(* `14:00-T-O - SALA b` has the name `T O` in App.tsx and `T - O` in       *)
(* part_001.                                                               *)
(***************************************************************************)
C24_VariantsAgree ==
  Looked =>
    LET ts == MinutesOf(TodayActivities)
    IN  /\ ctx.nextActivity = OtherScan.next
        /\ (Ascending(ts) /\ StrictMatches(ts) # {})
             => ctx.currentActivity = OtherScan.current

\* the same for the entries the activities are made from, on the days of
\* which both revisions keep the same entries
C24_VariantsAgreeOnEntries ==
  (Looked /\ SameEntriesKept) =>
    LET ts == MinutesOf(TodayActivities)
    IN  /\ EntryOf(ctx.nextActivity) = EntryOf(OtherScan.next)
        /\ (Ascending(ts) /\ StrictMatches(ts) # {})
             => EntryOf(ctx.currentActivity) = EntryOf(OtherScan.current)

\* part_001 has looked up a day in ascending order whose first entry is
\* current and whose second entry, next, has another name in App.tsx
C24_Witness ==
  /\ Looked
  /\ revision = "part_001"
  /\ SameEntriesKept
  /\ Len(ActivitiesOld) = 2
  /\ Ascending(MinutesOf(ActivitiesOld))
  /\ ctx.currentActivity = ActivitiesOld[1]
  /\ ctx.nextActivity = ActivitiesOld[2]
  /\ ActivitiesOld[2] # ActivitiesApp[2]
  /\ EntryOf(ActivitiesOld[2]) = EntryOf(ActivitiesApp[2])

(***************************************************************************)
(* C25.  In part_001, when the day has activities, none is in the strict   *)
(* window and none is later than the reference time, currentActivity is    *)
(* the last activity in schedule order, however long ago it was; and       *)
(* currentActivity never stands behind nextActivity in schedule order.     *)
(* A last entry whose time is not a time (C6) is never returned: its       *)
(* minute is not a number and the test t <= nowMin is false.               *)
(***************************************************************************)
C25_LastActivityIsCurrent ==
  (Looked /\ revision = "part_001") =>
    LET acts == TodayActivities
        ts   == MinutesOf(acts)
    IN  /\ (Len(acts) > 0 /\ StrictMatches(ts) = {} /\ FutureMatches(ts) = {})
             => ctx.currentActivity = acts[Len(acts)]
        /\ (ctx.currentActivity # Null /\ ctx.nextActivity # Null)
             => \E i, j \in 1..Len(acts) :
                  /\ i <= j
                  /\ acts[i] = ctx.currentActivity
                  /\ acts[j] = ctx.nextActivity

(***************************************************************************)
(* C26.  parseActivities gives an activity a room only when its            *)
(* description has two hyphen tokens or more: an entry whose whole         *)
(* description is one room token (`10:00-Sala A`) is returned with that    *)
(* token as activityName and without a room, it is not dropped for an      *)
(* empty name.                                                             *)
(***************************************************************************)
\* the entry has a time, and its description is one token that is a room
IsLoneRoomEntry(e) ==
  /\ FirstHyphen(Trim(e)) > 0
  /\ BeforeHyphen(e) # <<>>
  /\ FirstHyphen(AfterHyphen(e)) = 0
  /\ BeginsWithWordSala(AfterHyphen(e))

C26_LoneRoomTokenIsTheName ==
  ParsedString =>
    LET s   == parsed.activitiesString
        es  == Split(s, ",")
        res == parsed.result
    IN  /\ \A i \in 1..Len(res) :
             res[i].room # Undefined => FirstHyphen(res[i].description) > 0
        /\ ~ContainsIgnoringCase(s, Descanso) =>
             \A k \in 1..Len(es) :
               IsLoneRoomEntry(es[k]) =>
                 \E i \in 1..Len(res) :
                   /\ res[i].time = BeforeHyphen(es[k])
                   /\ res[i].description = AfterHyphen(es[k])
                   /\ res[i].activityName = AfterHyphen(es[k])
                   /\ res[i].fullDescription = AfterHyphen(es[k])
                   /\ res[i].room = Undefined

\* the parser was given the one entry `10:00-Sala A` and has returned the
\* activity named `Sala A`
C26_Witness ==
  /\ ParsedString
  /\ parsed.activitiesString = EntryOnlyRoom
  /\ Len(parsed.result) = 1
  /\ parsed.result[1].activityName = <<"S", "a", "l", "a", " ", "A">>
  /\ parsed.result[1].room = Undefined

(***************************************************************************)
(* The capture screen of src/src/App.tsx.  The click handlers and the      *)
(* continuations of their awaits are the steps.  A handler runs to its     *)
(* next await, and the component is rendered again before the next step:   *)
(* the buttons shown, the <video> mounted and the help effect are those of *)
(* the status the step has set.                                            *)
(***************************************************************************)
\* the values of the type of captureState.status
Statuses ==
  {"idle", "camera-active", "capturing", "sending", "success", "error",
   "user-found", "user-not-found", "no-face"}

\* the statuses a recognition result is shown under
ResultStatuses == {"user-found", "user-not-found", "no-face"}

\* the <video> is rendered under these statuses; videoRef.current is null
\* under the others
Mounted(s) == s \in {"camera-active", "capturing"}

\* srcObject of the <video> once the status is s: the element and its
\* srcObject stay while the element is rendered, a new element has none
VideoAfter(s, src) == IF Mounted(status) /\ Mounted(s) THEN src ELSE NoStream

\* the help effect runs again when one of its dependencies has changed:
\* the status, or getHelpInstructions because of a new recognitionData
EffectRuns(s) == s # status \/ s \in ResultStatuses

\* setCaptureState({status: s, ...}) and the render that follows: the
\* cleanup of the help effect clears the timer and the effect sets a new one
\* when help is on
SetCaptureState(s) ==
  /\ status' = s
  /\ passed' = IF s = "idle" THEN {}
               ELSE passed \cup ({s} \cap {"camera-active", "capturing", "sending"})
  /\ timer' = IF EffectRuns(s)
              THEN (IF isHelpActive THEN s ELSE NoTimer)
              ELSE timer

\* stopCamera: the tracks of the stream held are stopped, the reference is
\* dropped
TracksAfterStop == tracks \ {streamRef}

\* startCamera up to its await of getUserMedia; the button is shown under idle
StartCamera ==
  /\ status = "idle"
  /\ Len(cameraCalls) < MaxStartCalls
  /\ SetCaptureState("camera-active")
  /\ srcObject' = NoStream
  /\ cameraCalls' = Append(cameraCalls, "getUserMedia")
  /\ UNCHANGED <<streamRef, tracks, captures, isHelpActive, speaking>>
  /\ UNCHANGED schedule

\* getUserMedia of call k resolves with a new stream, which is given the
\* number of the call: streamRef.current = stream; then, when a <video> is
\* mounted, srcObject = stream and await play(), else the last setCaptureState
GetUserMediaResolves(k) ==
  /\ k \in DOMAIN cameraCalls
  /\ cameraCalls[k] = "getUserMedia"
  /\ streamRef' = k
  /\ tracks' = tracks \cup {k}
  /\ IF Mounted(status)
     THEN /\ srcObject' = k
          /\ cameraCalls' = [cameraCalls EXCEPT ![k] = "play"]
          /\ UNCHANGED <<status, passed, timer>>
     ELSE /\ SetCaptureState("camera-active")
          /\ srcObject' = NoStream
          /\ cameraCalls' = [cameraCalls EXCEPT ![k] = "done"]
  /\ UNCHANGED <<captures, isHelpActive, speaking>>
  /\ UNCHANGED schedule

\* getUserMedia of call k rejects: the catch of startCamera
GetUserMediaRejects(k) ==
  /\ k \in DOMAIN cameraCalls
  /\ cameraCalls[k] = "getUserMedia"
  /\ SetCaptureState("error")
  /\ srcObject' = NoStream
  /\ cameraCalls' = [cameraCalls EXCEPT ![k] = "done"]
  /\ UNCHANGED <<streamRef, tracks, captures, isHelpActive, speaking>>
  /\ UNCHANGED schedule

\* play() of call k resolves: setCaptureState 'camera-active', camera ready
PlayResolves(k) ==
  /\ k \in DOMAIN cameraCalls
  /\ cameraCalls[k] = "play"
  /\ SetCaptureState("camera-active")
  /\ srcObject' = VideoAfter("camera-active", srcObject)
  /\ cameraCalls' = [cameraCalls EXCEPT ![k] = "done"]
  /\ UNCHANGED <<streamRef, tracks, captures, isHelpActive, speaking>>
  /\ UNCHANGED schedule

\* play() of call k rejects (the element was removed or given another
\* source): the catch of startCamera
PlayRejects(k) ==
  /\ k \in DOMAIN cameraCalls
  /\ cameraCalls[k] = "play"
  /\ SetCaptureState("error")
  /\ srcObject' = NoStream
  /\ cameraCalls' = [cameraCalls EXCEPT ![k] = "done"]
  /\ UNCHANGED <<streamRef, tracks, captures, isHelpActive, speaking>>
  /\ UNCHANGED schedule

\* capturePhoto up to its await of the blob; the button is shown under
\* camera-active, where the <video> is mounted.  Without a 2d context the
\* handler throws and ends under error.  The canvas takes the size of the
\* video frame: it has pixels only when the <video> has a stream
CapturePhoto ==
  /\ status = "camera-active"
  /\ Len(captures) < MaxCaptures
  /\ \E context \in BOOLEAN :
       IF context
       THEN /\ SetCaptureState("capturing")
            /\ captures' = Append(captures, [await |-> "toBlob",
                                             pixels |-> srcObject # NoStream])
            /\ UNCHANGED srcObject
       ELSE /\ SetCaptureState("error")
            /\ srcObject' = NoStream
            /\ UNCHANGED captures
  /\ UNCHANGED <<streamRef, tracks, cameraCalls, isHelpActive, speaking>>
  /\ UNCHANGED schedule

\* the toBlob callback of capture c without its else branch:
\* if (blob) resolve(blob); on null the promise stays pending
BlobSettlesWithoutReject(c) ==
  /\ c \in DOMAIN captures
  /\ captures[c].await = "toBlob"
  /\ \E blob \in (IF captures[c].pixels THEN BOOLEAN ELSE {FALSE}) :
       IF blob
       THEN /\ SetCaptureState("sending")
            /\ srcObject' = NoStream
            /\ captures' = [captures EXCEPT ![c].await = "fetch"]
       ELSE /\ captures' = [captures EXCEPT ![c].await = "never"]
            /\ UNCHANGED <<status, passed, timer, srcObject>>
  /\ UNCHANGED <<streamRef, tracks, cameraCalls, isHelpActive, speaking>>
  /\ UNCHANGED schedule

\* the toBlob callback of capture c: with a blob sendToWebhook starts (status
\* sending, fetch awaited); with null (a canvas without pixels gives null)
\* the promise rejects and the catch of capturePhoto sets error
BlobSettles(c) ==
  /\ c \in DOMAIN captures
  /\ captures[c].await = "toBlob"
  /\ \E blob \in (IF captures[c].pixels THEN BOOLEAN ELSE {FALSE}) :
       IF blob
       THEN /\ SetCaptureState("sending")
            /\ captures' = [captures EXCEPT ![c].await = "fetch"]
       ELSE /\ SetCaptureState("error")
            /\ captures' = [captures EXCEPT ![c].await = "done"]
  /\ srcObject' = NoStream
  /\ UNCHANGED <<streamRef, tracks, cameraCalls, isHelpActive, speaking>>
  /\ UNCHANGED schedule

\* what the webhook request of a capture can come to: a body with one of
\* the three known statuses, a body with another status or none, and a
\* failure (network error, HTTP status not ok, a body that is not JSON, an
\* empty array)
Responses ==
  {"user_found", "user_not_found", "no_face_detected", "unknown", "failed"}

\* handleRecognitionResult: the status set for a result
StatusOf(r) ==
  IF r = "user_found" THEN "user-found"
  ELSE IF r = "user_not_found" THEN "user-not-found"
  ELSE IF r = "no_face_detected" THEN "no-face"
  ELSE "error"

\* the request of capture c settles: handleRecognitionResult and stopCamera
\* on a body, the catch of sendToWebhook on a failure
FetchSettles(c) ==
  /\ c \in DOMAIN captures
  /\ captures[c].await = "fetch"
  /\ \E r \in Responses :
       IF r = "failed"
       THEN /\ SetCaptureState("error")
            /\ UNCHANGED <<streamRef, tracks>>
       ELSE /\ SetCaptureState(StatusOf(r))
            /\ tracks' = TracksAfterStop
            /\ streamRef' = NoStream
  /\ srcObject' = NoStream
  /\ captures' = [captures EXCEPT ![c].await = "done"]
  /\ UNCHANGED <<cameraCalls, isHelpActive, speaking>>
  /\ UNCHANGED schedule

\* the statuses under which a button calls resetCapture: Cancelar under
\* camera-active, Comenzar de Nuevo under a result or error
ResetStatuses == {"camera-active", "error"} \cup ResultStatuses

\* resetCapture: stopCamera, then idle
ResetCapture ==
  /\ status \in ResetStatuses
  /\ tracks' = TracksAfterStop
  /\ streamRef' = NoStream
  /\ SetCaptureState("idle")
  /\ srcObject' = NoStream
  /\ UNCHANGED <<cameraCalls, captures, isHelpActive, speaking>>
  /\ UNCHANGED schedule

\* toggleHelp if the timer of the help effect were left running:
\* an effect without its cleanup
ToggleHelpKeepingTimer ==
  /\ isHelpActive' = ~isHelpActive
  /\ IF isHelpActive
     THEN speaking' = Silent /\ timer' = timer
     ELSE speaking' = speaking /\ timer' = status
  /\ UNCHANGED <<status, streamRef, tracks, srcObject, cameraCalls, captures,
                 passed>>
  /\ UNCHANGED schedule

\* toggleHelp and the render that follows.  Switching off cancels the speech
\* and the cleanup of the effect clears the timer; switching on sets the
\* timer for the help text of the status
ToggleHelp ==
  /\ isHelpActive' = ~isHelpActive
  /\ IF isHelpActive
     THEN speaking' = Silent /\ timer' = NoTimer
     ELSE speaking' = speaking /\ timer' = status
  /\ UNCHANGED <<status, streamRef, tracks, srcObject, cameraCalls, captures,
                 passed>>
  /\ UNCHANGED schedule

\* the timer fires: speak(helpText) cancels the speech and starts the
\* utterance
TimerFires ==
  /\ timer # NoTimer
  /\ speaking' = timer
  /\ timer' = NoTimer
  /\ UNCHANGED <<status, streamRef, tracks, srcObject, cameraCalls, captures,
                 passed, isHelpActive>>
  /\ UNCHANGED schedule

\* the utterance comes to its end
SpeechEnds ==
  /\ speaking # Silent
  /\ speaking' = Silent
  /\ UNCHANGED <<status, streamRef, tracks, srcObject, cameraCalls, captures,
                 passed, isHelpActive, timer>>
  /\ UNCHANGED schedule

\* the schedule functions are not called while the capture screen is up
InitCapture ==
  /\ scheduleData = Null
  /\ revision = "App"
  /\ dayName = ""
  /\ nowMin = 0
  /\ engine = <<>>
  /\ parsed = NotCalled
  /\ ctx = NotCalled
  /\ activities = NotCalled
  /\ stats = NotCalled
  /\ images = NotCalled
  /\ InitKiosk

NextCapture ==
  \/ StartCamera
  \/ \E k \in 1..MaxStartCalls : GetUserMediaResolves(k)
  \/ \E k \in 1..MaxStartCalls : GetUserMediaRejects(k)
  \/ \E k \in 1..MaxStartCalls : PlayResolves(k)
  \/ \E k \in 1..MaxStartCalls : PlayRejects(k)
  \/ CapturePhoto
  \/ \E c \in 1..MaxCaptures : BlobSettles(c)
  \/ \E c \in 1..MaxCaptures : FetchSettles(c)
  \/ ResetCapture

SpecCapture == InitCapture /\ [][NextCapture]_vars

\* the blob creation and the webhook request of every capture settle
CaptureSettles ==
  \A c \in 1..MaxCaptures :
    WF_vars(BlobSettles(c)) /\ WF_vars(FetchSettles(c))

SpecCaptureLive == SpecCapture /\ CaptureSettles

NextHelp ==
  \/ ToggleHelp
  \/ TimerFires
  \/ SpeechEnds
  \/ NextCapture

SpecHelp == InitCapture /\ [][NextHelp]_vars

\* every variable of the capture screen has a value of its type
KioskTypeOK ==
  /\ status \in Statuses
  /\ streamRef \in 0..MaxStartCalls
  /\ tracks \subseteq 1..MaxStartCalls
  /\ srcObject \in 0..MaxStartCalls
  /\ Len(cameraCalls) <= MaxStartCalls
  /\ Len(captures) <= MaxCaptures
  /\ timer \in Statuses \cup {NoTimer}
  /\ speaking \in Statuses \cup {Silent}

(***************************************************************************)
(* C21.  At most one webhook request is in flight at any time: between the *)
(* start of a sendToWebhook call and the settling of its fetch no second   *)
(* sendToWebhook call begins, in every interleaving of the clicks and of   *)
(* the completions.  The status is set back to camera-active by a          *)
(* startCamera call that was still awaiting while a capture was under way, *)
(* and the capture button is shown again.                                  *)
(***************************************************************************)
\* the captures whose request has started and not settled
InFlight == {c \in DOMAIN captures : captures[c].await = "fetch"}

C21_OneRequestInFlight == Cardinality(InFlight) <= 1

(***************************************************************************)
(* C27.  Capture status machine: a result status (user-found,              *)
(* user-not-found, no-face) is entered only after the status has passed    *)
(* through camera-active, capturing and sending since it was last idle;    *)
(* resetCapture, called from one of its buttons, is the only way back to   *)
(* idle; the status `success` is never reached.  A request that is still   *)
(* pending when the status is put back to camera-active and the user       *)
(* cancels delivers its result under idle.                                 *)
(***************************************************************************)
C27_ResultOnlyAfterCapture ==
  [][/\ status' \in ResultStatuses
          => {"camera-active", "capturing", "sending"} \subseteq passed'
     /\ (status # "idle" /\ status' = "idle")
          => (status \in ResetStatuses /\ streamRef' = NoStream)
     /\ status' # "success"
    ]_vars

(***************************************************************************)
(* C28.  After resetCapture no camera stream is held and the status stays  *)
(* idle until the user calls startCamera again, also when an earlier       *)
(* startCamera call is still awaiting getUserMedia; never are two streams  *)
(* running, and no stream runs without streamRef referring to it.          *)
(* resetCapture does not cancel the pending call: when its getUserMedia    *)
(* resolves, the stream is kept and the status set to camera-active.       *)
(***************************************************************************)
C28_NoStreamAfterReset ==
  [][/\ (status = "idle" /\ status' # "idle")
          => Len(cameraCalls') > Len(cameraCalls)
     /\ status' = "idle" => (streamRef' = NoStream /\ tracks' = {})
     /\ Cardinality(tracks') <= 1
     /\ tracks' \subseteq {streamRef'}
    ]_vars

(***************************************************************************)
(* C29.  Every capture attempt comes to a settled status: from capturing   *)
(* or sending, provided the blob creation and the webhook request settle,  *)
(* the status eventually is user-found, user-not-found, no-face or error;  *)
(* every failure (no canvas context, null blob, network error, HTTP status *)
(* not ok, unknown or missing result status) leads to error.               *)
(***************************************************************************)
SettledStatuses == ResultStatuses \cup {"error"}

\* capture c has come to the end of capturePhoto
Ended(cs, c) == c \in DOMAIN cs /\ cs[c].await = "done"

C29_CaptureComesToAnEnd ==
  /\ (status \in {"capturing", "sending"}) ~> (status \in SettledStatuses)
  /\ \A c \in 1..MaxCaptures :
       (c \in DOMAIN captures /\ ~Ended(captures, c))
         ~> (Ended(captures, c) /\ status \in SettledStatuses)

\* the first capture has been sent and answered, and the result is shown
C29_Witness ==
  /\ Len(captures) = 1
  /\ captures[1].await = "done"
  /\ captures[1].pixels
  /\ passed = {"camera-active", "capturing", "sending"}
  /\ status \in ResultStatuses

(***************************************************************************)
(* C30.  Voice help: once toggleHelp has switched help off, the timer is   *)
(* cleared, the speech cancelled, and no utterance starts until help is    *)
(* switched on again; and while help is on, an utterance that starts is    *)
(* the help text of the status of that moment: a status change before the  *)
(* timer fires replaces the timer.                                         *)
(***************************************************************************)
\* the step starts an utterance
UtteranceStarts == speaking' # speaking /\ speaking' # Silent

====
